---- MODULE Spec2Model ----
(***************************************************************************)
(* stars-to-notion: one run of the script that mirrors a GitHub user's     *)
(* starred repositories into a Notion database.                            *)
(*                                                                         *)
(* The repository holds three revisions of index.js:                       *)
(*   "v1"  src/index.js lines 1-291     (batch size 1, try/catch writers)  *)
(*   "v2"  src/index.js lines 292-618   (environment check, batch size 10, *)
(*                                       writers without try/catch)        *)
(*   "v3"  src/unnamed/part_001         (batch size 1, try/catch writers,  *)
(*                                       no environment check)             *)
(* The variable `variant` fixes the revision a run executes.               *)
(*                                                                         *)
(* A run is a chain of promise continuations.  Each action below is one    *)
(* continuation: it starts when an awaited external call settles and runs  *)
(* up to the next await on an external call.                               *)
(***************************************************************************)
EXTENDS Integers, Sequences, FiniteSets, TLC

(* ----------------------------- bounds ---------------------------------- *)
\* most starred repositories the source holds in a run
MaxStars == 11
\* most pages the destination database holds in a run
MaxPages == 2
\* largest repository id of the reconciliation inputs
MaxId == 3
\* longest snapshot of the reconciliation inputs
MaxLen == 3
\* most topics of a repository handed to the field mapper
MaxTopics == 2
\* most starred repositories of the runs checked for termination
MaxLiveStars == 6
\* the runs of the script on one database, and most repositories they see
NumRuns == 2
MaxRunStars == 1

(* --------------------------- JS values --------------------------------- *)
\* JS null, as the "number" of a page whose id property is empty; repository
\* ids are positive, so -1 is no id
null == -1
\* a Notion page id is a non-empty string; PageId(i) is the i-th one
PageId(i) == <<"page", i>>
\* the value of a missing property of the lookup table
undefined == <<"undefined", 0>>
\* the empty string
EmptyString == <<"", 0>>
\* JS null where a string, an array or an object is expected
nullObject == <<"null", 0>>
\* the string with the (non-empty) text s
String(s) == <<s, 0>>
\* the array of the elements elems
Array(elems) == <<"[array]", elems>>
\* an object literal { kind: payload }, kind standing for its keys
Object(kind, payload) == <<"[object]", kind, payload>>
\* if (v) written as if (v !== null)
Truthy_notNull(v) == v # nullObject
\* JS truthiness of a value that is a page id, undefined, null, a string, an
\* array or an object
Truthy(v) == v \notin {undefined, EmptyString, nullObject}

DigitChar == <<"0", "1", "2", "3", "4", "5", "6", "7", "8", "9">>

RECURSIVE NumberToString(_)
\* ToString of a non-negative integer: its decimal digits
NumberToString(n) ==
    IF n < 10 THEN <<DigitChar[n + 1]>>
    ELSE NumberToString(n \div 10) \o <<DigitChar[(n % 10) + 1]>>

\* the property key an object uses for the value v: ToString(v)
ToPropertyKey(v) ==
    IF v = null THEN <<"n", "u", "l", "l">> ELSE NumberToString(v)

\* obj[key] of a plain object used as a map
Get(obj, key) == IF key \in DOMAIN obj THEN obj[key] ELSE undefined

\* obj[key] = value
Put(obj, key, value) ==
    [k \in (DOMAIN obj) \cup {key} |-> IF k = key THEN value ELSE obj[k]]

\* the object {}
EmptyObject == [k \in {} |-> undefined]

Min(a, b) == IF a < b THEN a ELSE b

(* --------------------------- revisions --------------------------------- *)
Variants == {"v1", "v2", "v3"}

RequiredEnv == {"GH_STARS_USER", "GH_USER_TOKEN", "NOTION_KEY", "NOTION_DATABASE_ID"}

\* whether the revision checks the environment before anything else
HasEnvCheck(v) == v = "v2"

\* whether createPages/updatePages wrap their loop in try/catch
HasTryCatch(v) == v \in {"v1", "v3"}

OPERATION_BATCH_SIZE(v) == IF v = "v2" THEN 10 ELSE 1

\* page_size of notion.databases.query
page_size(v) == IF v = "v2" THEN 10 ELSE 25

\* per_page of the GitHub iterator
per_page(v) == 100

(* ----------------------- pure functions -------------------------------- *)
\* a page of the destination as the query returns it: its id and the number
\* of its id property ("Repository ID", "Star ID" or "ID" by revision)
NotionPage(i, n) == [id |-> PageId(i), number |-> n]

\* a repository as getGitHubStarsForUser pushes it; only the id takes part
\* in reconciliation and batching
Star(n) == [id |-> n]

\* the map reading a number property the pages leave empty
PageToStar_noId(page) == [pageId |-> page.id, starId |-> null]

\* pages.map(page => ({ pageId: page.id, starId: page.properties[..].number }))
PageToStar(page) == [pageId |-> page.id, starId |-> page.number]

MapPages(ps) == [i \in 1..Len(ps) |-> PageToStar(ps[i])]

\* gitHubStarsIdToNotionPageId[starId] = pageId
IndexStep(map, entry) == Put(map, ToPropertyKey(entry.starId), entry.pageId)

RECURSIVE IndexLoop(_, _, _, _)
\* for (const { pageId, starId } of currentStars), entries i..last
IndexLoop(currentStars, i, last, map) ==
    IF i > last THEN map
    ELSE IndexLoop(currentStars, i + 1, last, IndexStep(map, currentStars[i]))

\* a loop that leaves the last entry out
setInitialGitHubToNotionIdMap_short(currentStars, map) ==
    IndexLoop(currentStars, 1, Len(currentStars) - 1, map)

\* the table after setInitialGitHubToNotionIdMap, from the table before it
setInitialGitHubToNotionIdMap(currentStars, map) ==
    IndexLoop(currentStars, 1, Len(currentStars), map)

\* a loop body whose two pushes are not alternatives
ClassifyStar_both(acc, star, map) ==
    LET pageId == Get(map, ToPropertyKey(star.id)) IN
    [pagesToCreate |-> Append(acc.pagesToCreate, star),
     pagesToUpdate |->
        IF Truthy(pageId)
        THEN Append(acc.pagesToUpdate, [pageId |-> pageId] @@ star)
        ELSE acc.pagesToUpdate]

\* the body of getNotionOperations' loop for one star
ClassifyStar(acc, star, map) ==
    LET pageId == Get(map, ToPropertyKey(star.id)) IN
    IF Truthy(pageId)
    THEN [acc EXCEPT !.pagesToUpdate = Append(@, [pageId |-> pageId] @@ star)]
    ELSE [acc EXCEPT !.pagesToCreate = Append(@, star)]

RECURSIVE getNotionOperationsLoop(_, _, _, _)
getNotionOperationsLoop(ss, map, i, acc) ==
    IF i > Len(ss) THEN acc
    ELSE getNotionOperationsLoop(ss, map, i + 1, ClassifyStar(acc, ss[i], map))

getNotionOperations(ss, map) ==
    getNotionOperationsLoop(ss, map, 1,
        [pagesToCreate |-> <<>>, pagesToUpdate |-> <<>>])

RECURSIVE chunkFrom(_, _, _)
\* lodash's loop: result[resIndex++] = baseSlice(array, index, index += size)
chunkFrom(array, size, index) ==
    IF index > Len(array) THEN <<>>
    ELSE <<SubSeq(array, index, Min(index + size - 1, Len(array)))>>
         \o chunkFrom(array, size, index + size)

\* slices one element too long
chunk_oversize(array, size) ==
    IF Len(array) = 0 \/ size < 1 THEN <<>> ELSE chunkFrom(array, size + 1, 1)

\* _.chunk(array, size)
chunk(array, size) ==
    IF Len(array) = 0 \/ size < 1 THEN <<>> ELSE chunkFrom(array, size, 1)

\* ({ pageId, ...star }) => star
RestOfPage(p) == [k \in (DOMAIN p) \ {"pageId"} |-> p[k]]

\* notion.pages.create({ parent, properties: getPropertiesFromStar(star) })
CreateCall(star) == [kind |-> "create", star |-> star, page_id |-> undefined]

\* notion.pages.update({ page_id: pageId, properties: getPropertiesFromStar(star) })
UpdateCall(p) == [kind |-> "update", star |-> RestOfPage(p), page_id |-> p.pageId]

\* pagesToCreateBatch.map(star => notion.pages.create(..))
CreateCalls(batch) == [i \in 1..Len(batch) |-> CreateCall(batch[i])]

\* pagesToUpdateBatch.map(({ pageId, ...star }) => notion.pages.update(..))
UpdateCalls(batch) == [i \in 1..Len(batch) |-> UpdateCall(batch[i])]

Range(s) == {s[i] : i \in 1..Len(s)}

\* the calls of batch b of a writer
BatchCalls(ph, toCreate, toUpdate, b, size) ==
    IF ph = "create" THEN CreateCalls(chunk(toCreate, size)[b])
    ELSE UpdateCalls(chunk(toUpdate, size)[b])

\* Promise.any in place of Promise.all: the first fulfilment resolves it
PromiseAllFulfilled_any(calls, fulfilled) == \E c \in calls : c \in fulfilled

\* a promise that never settles in place of Promise.all
PromiseAllFulfilled_never(calls, fulfilled) == FALSE

\* Promise.all(calls) fulfils when every call has
PromiseAllFulfilled(calls, fulfilled) == \A c \in calls : c \in fulfilled

\* .finally in place of .then: the callback runs after a rejection too
ThenCallsBack_finally(settled) == TRUE

\* promise.then(callback) calls back only when the promise fulfils
ThenCallsBack(settled) == settled = "fulfilled"

(* --------------------------- field mapper ------------------------------ *)
\* the name of the number property that carries the repository id
IdField(v) ==
    CASE v = "v1" -> "Repository ID" [] v = "v2" -> "Star ID" [] OTHER -> "ID"

UrlField(v) == IF v = "v1" THEN "Repo URL" ELSE "URL"

SizeField(v) == IF v = "v1" THEN "Size" ELSE "Size (Kb)"

\* labels.map(topic => ({ name: topic }))
TopicNames(labels) ==
    [i \in 1..Len(labels[2]) |-> Object("name", labels[2][i])]

\* the properties every revision's object literal sets from the star alone
ItemAlways(v, star) ==
    (IdField(v) :> Object("number", star.id))
    @@ ("Name" :> Object("title", star.title))
    @@ (UrlField(v) :> Object("url", star.url))
    @@ ("Starred" :> Object("date", star.starred))
    @@ ("Created" :> Object("date", star.created))
    @@ ("Stargazers" :> Object("number", star.stargazers))
    @@ ("Watchers" :> Object("number", star.watchers))
    @@ (SizeField(v) :> Object("number", star.size))
    @@ ("Forks" :> Object("number", star.forks))

\* cond ? value : null
Ternary(cond, value) == IF cond THEN value ELSE nullObject

\* if (cond) { item[key] = value }
PutIf(cond, item, key, value) == IF cond THEN Put(item, key, value) ELSE item

\* Object.fromEntries(Object.entries(item).filter(([_, v]) => v != null))
FilterNull(item) ==
    [k \in {j \in DOMAIN item : item[j] \notin {nullObject, undefined}}
       |-> item[k]]

\* v1: the literal, then one conditional assignment per optional property
\* (Homepage takes the repository's url)
getPropertiesFromStar_v1(star) ==
    LET i1 == PutIf(Truthy(star.homepage), ItemAlways("v1", star),
                    "Homepage", Object("url", star.url))
        i2 == PutIf(Truthy(star.language), i1,
                    "Language", Object("select", star.language))
        i3 == PutIf(Truthy(star.description), i2,
                    "Description", Object("rich_text", star.description))
    IN PutIf(Len(star.labels[2]) > 0, i3,
             "Topics", Object("multi_select", TopicNames(star.labels)))

\* v2: the literal with a ternary per optional property, its null entries
\* filtered out of what is returned
getPropertiesFromStar_v2(star) ==
    FilterNull(
        ItemAlways("v2", star)
        @@ ("Pushed" :> Object("date", star.pushed))
        @@ ("Homepage" :>
              Ternary(Truthy(star.homepage) /\ star.homepage # EmptyString,
                      Object("url", star.homepage)))
        @@ ("Description" :>
              Ternary(Truthy(star.description),
                      Object("rich_text", star.description)))
        @@ ("Language" :>
              Ternary(Truthy(star.language), Object("select", star.language)))
        @@ ("Topics" :>
              Ternary(Truthy(star.labels),
                      Object("multi_select", TopicNames(star.labels)))))

\* v3: the literal, Language without ternary; the filtered copy is dropped
\* and the literal itself returned
getPropertiesFromStar_v3(star) ==
    ItemAlways("v3", star)
    @@ ("Pushed" :> Object("date", star.pushed))
    @@ ("Homepage" :>
          Ternary(Truthy(star.homepage), Object("url", star.homepage)))
    @@ ("Description" :>
          Ternary(Truthy(star.description),
                  Object("rich_text", star.description)))
    @@ ("Language" :> Object("select", star.language))
    @@ ("Topics" :>
          Ternary(Truthy(star.labels),
                  Object("multi_select", TopicNames(star.labels))))

getPropertiesFromStar(v, star) ==
    CASE v = "v1" -> getPropertiesFromStar_v1(star)
      [] v = "v2" -> getPropertiesFromStar_v2(star)
      [] OTHER -> getPropertiesFromStar_v3(star)

(* ------------------------------ state ---------------------------------- *)
VARIABLES
    variant,        \* the revision of index.js that runs
    env,            \* the required configuration values that are set
    notionDb,       \* the pages the destination database holds
    githubStars,    \* the repositories the source user has starred
    pc,             \* where the process is: "startup", "awaitNotion",
                    \* "awaitGitHub", "writing", "rejected", "synced", "exited"
    exitCode,       \* the exit status once pc = "exited", else -1
    fetchError,     \* "none", or the reader whose page fetch failed
    pages,          \* getStarsFromNotionDatabase: pages
    cursor,         \* getStarsFromNotionDatabase: cursor
    currentStars,   \* setInitialGitHubToNotionIdMap: currentStars
    notionInFlight, \* the databases.query calls sent and not yet settled
    called,         \* the services a read was sent to: "notion", "github"
    gitHubStarsIdToNotionPageId,  \* the lookup table
    stars,          \* getGitHubStarsForUser: stars
    pagesToCreate,  \* getNotionOperations' result, as sync holds it
    pagesToUpdate,
    phase,          \* "init", "create", "update", "finished": the writer that
                    \* runs; "init" until getNotionOperations has run
    batchNo,        \* the batch the running writer awaits (0: none)
    batches,        \* the batches of create/update calls issued so far
    inflight,       \* the calls issued and not settled
    failedOps,      \* the calls that rejected
    completedOps,   \* the calls that fulfilled
    synced,         \* whether "Notion database is synced" was logged
    mapperStar,     \* getPropertiesFromStar on its own: its argument
    properties,     \* getPropertiesFromStar on its own: what the call gave
    runs,           \* several runs on one database: each run's state
    createdPages    \* several runs on one database: the pages they created

vars == <<variant, env, notionDb, githubStars, pc, exitCode, fetchError, pages,
          cursor, currentStars, notionInFlight, called,
          gitHubStarsIdToNotionPageId, stars,
          pagesToCreate, pagesToUpdate, phase, batchNo, batches, inflight,
          failedOps, completedOps, synced, mapperStar, properties, runs,
          createdPages>>

inputVars == <<variant, env, notionDb, githubStars>>
notionReaderVars == <<pages, cursor, currentStars, notionInFlight>>
writerVars == <<pagesToCreate, pagesToUpdate, phase, batchNo, batches, inflight,
                failedOps, completedOps, synced>>
mapperVars == <<mapperStar, properties>>
runsVars == <<runs, createdPages>>
\* the variables of the specifications of parts of the program
sideVars == <<mapperVars, runsVars>>

\* getPropertiesFromStar is not called on its own
MapperIdle == mapperStar = Star(0) /\ properties = EmptyObject

\* one run only
RunsIdle == runs = <<>> /\ createdPages = <<>>

\* let cursor = undefined / next_cursor: null; a cursor the API returns is a
\* non-empty string, here the position of the next page's first record
NoCursor == 0

\* the destination databases of a run, as the id numbers of their pages: up
\* to MaxPages pages for the repositories 1..n, or all for repository 1
NotionDbs ==
    {[i \in 1..n |-> i] : n \in 0..MaxPages}
        \cup {[i \in 1..n |-> 1] : n \in 0..MaxPages}

\* the source's starred lists of a run: repositories 1..n
GitHubLists == {[i \in 1..n |-> i] : n \in 0..MaxStars}

\* an item of the source's list: { starred_at, repo: { id, .. } }
GitHubItem(n) == [repo |-> [id |-> n]]

\* stars.push({ id: star.repo.id, .. })
StarFromItem(item) == Star(item.repo.id)

Init ==
    /\ variant \in Variants
    /\ env \in SUBSET RequiredEnv
    /\ \E ids \in NotionDbs :
         notionDb = [i \in 1..Len(ids) |-> NotionPage(i, ids[i])]
    /\ \E ids \in GitHubLists :
         githubStars = [i \in 1..Len(ids) |-> GitHubItem(ids[i])]
    /\ pc = "startup"
    /\ exitCode = -1
    /\ fetchError = "none"
    /\ pages = <<>>
    /\ cursor = NoCursor
    /\ currentStars = <<>>
    /\ notionInFlight = 0
    /\ called = {}
    /\ gitHubStarsIdToNotionPageId = EmptyObject
    /\ stars = <<>>
    /\ pagesToCreate = <<>>
    /\ pagesToUpdate = <<>>
    /\ phase = "init"
    /\ batchNo = 0
    /\ batches = <<>>
    /\ inflight = {}
    /\ failedOps = {}
    /\ completedOps = {}
    /\ synced = FALSE
    /\ MapperIdle
    /\ RunsIdle

(* --------------------------- environment ------------------------------- *)
\* the destination serves a client only with its key and database id
NotionAccepts(e) == {"NOTION_KEY", "NOTION_DATABASE_ID"} \subseteq e

\* the source lists a user's stars only when the user is named; v1 lists the
\* authenticated user's
GitHubAccepts(v, e) == v = "v1" \/ "GH_STARS_USER" \in e

(* ----------------------------- writers --------------------------------- *)
\* what a writer does next: the writer and batch then awaited, the calls it
\* issues on the way
WriterFinished == [phase |-> "finished", batchNo |-> 0, calls |-> <<>>]

\* updatePages' loop after batch b (0: on entry)
updatePages(toUpdate, b, size) ==
    IF b < Len(chunk(toUpdate, size))
    THEN [phase |-> "update", batchNo |-> b + 1,
          calls |-> UpdateCalls(chunk(toUpdate, size)[b + 1])]
    ELSE WriterFinished

\* createPages' loop after batch b (0: on entry); when it ends sync goes on
\* to updatePages
createPages(toCreate, toUpdate, b, size) ==
    IF b < Len(chunk(toCreate, size))
    THEN [phase |-> "create", batchNo |-> b + 1,
          calls |-> CreateCalls(chunk(toCreate, size)[b + 1])]
    ELSE updatePages(toUpdate, 0, size)

\* the writer's loop after the awaited batch b of writer ph fulfilled
AfterBatch(ph, toCreate, toUpdate, b, size) ==
    IF ph = "create" THEN createPages(toCreate, toUpdate, b, size)
    ELSE updatePages(toUpdate, b, size)

\* catch (error) { .. } that starts the updates over
AfterCatch_retry(ph, toUpdate, size) == updatePages(toUpdate, 0, size)

\* catch (error) { console.error(error) }: the writer returns; after
\* createPages sync goes on to updatePages, after updatePages to the end
AfterCatch(ph, toUpdate, size) ==
    IF ph = "create" THEN updatePages(toUpdate, 0, size) ELSE WriterFinished

\* the state after the writer step w, the call `settled` (if any) leaving
\* the calls in flight
ApplyWriter(w, settled) ==
    /\ phase' = w.phase
    /\ batchNo' = w.batchNo
    /\ batches' = IF w.calls = <<>> THEN batches ELSE Append(batches, w.calls)
    /\ inflight' = (inflight \ settled) \cup Range(w.calls)
    /\ synced' = (w.phase = "finished")
    /\ pc' = IF w.phase = "finished" THEN "synced" ELSE "writing"

(* ----------------------------- actions --------------------------------- *)
\* syncNotionDatabaseWithGitHub up to its first await: the iterator's first
\* page is requested
StartSync ==
    /\ called' = called \cup {"github"}
    /\ pc' = "awaitGitHub"

\* setInitialGitHubToNotionIdMap().then(syncNotionDatabaseWithGitHub): the
\* promise settled; nothing catches a rejection
AfterSetInitial(settled) ==
    IF ThenCallsBack(settled)
    THEN StartSync
    ELSE /\ pc' = "rejected"
         /\ UNCHANGED called

\* the script's top level: the environment check of v2, then
\* setInitialGitHubToNotionIdMap runs to its first query
Startup ==
    /\ pc = "startup"
    /\ IF HasEnvCheck(variant) /\ env # RequiredEnv
       THEN /\ pc' = "exited"
            /\ exitCode' = 1
            /\ UNCHANGED <<called, notionInFlight>>
       ELSE /\ pc' = "awaitNotion"
            /\ called' = called \cup {"notion"}
            /\ notionInFlight' = notionInFlight + 1
            /\ UNCHANGED exitCode
    /\ UNCHANGED <<inputVars, sideVars, fetchError, pages, cursor, currentStars,
                   gitHubStarsIdToNotionPageId, stars, writerVars>>

\* if (!next_cursor) { break }, taken whatever the page's cursor
LoopBreaks_first(next_cursor) == TRUE

\* if (!next_cursor) { break }
LoopBreaks(next_cursor) == next_cursor = NoCursor

\* a query fulfils with k results; the loop goes round, or ends: the reader
\* returns (its locals are gone), the table is filled and sync starts
NotionQueryFulfilled(k) ==
    /\ pc = "awaitNotion"
    /\ NotionAccepts(env)
    /\ LET pos == IF cursor = NoCursor THEN 1 ELSE cursor
           results == SubSeq(notionDb, pos, pos + k - 1)
           next_cursor == IF pos + k <= Len(notionDb) THEN pos + k ELSE NoCursor
       IN IF LoopBreaks(next_cursor)
          THEN /\ currentStars' = MapPages(pages \o results)
               /\ pages' = <<>>
               /\ cursor' = NoCursor
               /\ notionInFlight' = notionInFlight - 1
               /\ gitHubStarsIdToNotionPageId' =
                    setInitialGitHubToNotionIdMap(currentStars',
                                                  gitHubStarsIdToNotionPageId)
               /\ AfterSetInitial("fulfilled")
          ELSE /\ pages' = pages \o results
               /\ cursor' = next_cursor
               /\ notionInFlight' = notionInFlight - 1 + 1
               /\ UNCHANGED <<pc, currentStars, called,
                              gitHubStarsIdToNotionPageId>>
    /\ UNCHANGED <<inputVars, sideVars, exitCode, fetchError, stars, writerVars>>

\* the page sizes the destination may answer a query with
NotionPageSizes ==
    LET pos == IF cursor = NoCursor THEN 1 ELSE cursor
        remaining == Len(notionDb) - pos + 1
    IN IF remaining = 0 THEN {0} ELSE 1..Min(page_size(variant), remaining)

\* a query rejects: getStarsFromNotionDatabase and setInitial reject
NotionQueryRejected ==
    /\ pc = "awaitNotion"
    /\ fetchError' = "notion"
    /\ notionInFlight' = notionInFlight - 1
    /\ AfterSetInitial("rejected")
    /\ UNCHANGED <<inputVars, sideVars, exitCode, pages, cursor, currentStars,
                   gitHubStarsIdToNotionPageId, stars, writerVars>>

\* the page sizes the source may answer a request with
GitHubPageSizes ==
    LET remaining == Len(githubStars) - Len(stars)
    IN IF remaining = 0 THEN {0} ELSE 1..Min(per_page(variant), remaining)

\* the iterator yields a page of k items; after the last page sync goes on:
\* getNotionOperations, then createPages up to its first await
GitHubPageFulfilled(k) ==
    /\ pc = "awaitGitHub"
    /\ GitHubAccepts(variant, env)
    /\ LET data == SubSeq(githubStars, Len(stars) + 1, Len(stars) + k)
           pushed == [i \in 1..Len(data) |-> StarFromItem(data[i])]
       IN /\ stars' = stars \o pushed
          /\ IF Len(stars') < Len(githubStars)
             THEN UNCHANGED <<pc, writerVars>>
             ELSE LET ops == getNotionOperations(stars', gitHubStarsIdToNotionPageId)
                  IN /\ pagesToCreate' = ops.pagesToCreate
                     /\ pagesToUpdate' = ops.pagesToUpdate
                     /\ ApplyWriter(createPages(ops.pagesToCreate, ops.pagesToUpdate,
                                                0, OPERATION_BATCH_SIZE(variant)), {})
                     /\ UNCHANGED <<failedOps, completedOps>>
    /\ UNCHANGED <<inputVars, sideVars, exitCode, fetchError, notionReaderVars, called,
                   gitHubStarsIdToNotionPageId>>

\* a page request rejects: the for await throws, sync rejects uncaught
GitHubPageRejected ==
    /\ pc = "awaitGitHub"
    /\ fetchError' = "github"
    /\ pc' = "rejected"
    /\ UNCHANGED <<inputVars, sideVars, exitCode, notionReaderVars,
                   gitHubStarsIdToNotionPageId, stars, called, writerVars>>

\* the calls of the batch whose Promise.all the writer awaits
AwaitedCalls ==
    IF pc = "writing"
    THEN Range(BatchCalls(phase, pagesToCreate, pagesToUpdate, batchNo,
                          OPERATION_BATCH_SIZE(variant)))
    ELSE {}

\* a create/update call fulfils; when it was the batch's last the writer
\* logs the batch and goes round its loop
WriteFulfilled(op) ==
    /\ pc = "writing"
    /\ op \in inflight
    /\ completedOps' = completedOps \cup {op}
    /\ IF op \in AwaitedCalls /\ PromiseAllFulfilled(AwaitedCalls, completedOps')
       THEN ApplyWriter(AfterBatch(phase, pagesToCreate, pagesToUpdate, batchNo,
                                   OPERATION_BATCH_SIZE(variant)), {op})
       ELSE /\ inflight' = inflight \ {op}
            /\ UNCHANGED <<pc, phase, batchNo, batches, synced>>
    /\ UNCHANGED <<inputVars, sideVars, exitCode, fetchError, notionReaderVars,
                   gitHubStarsIdToNotionPageId, stars, called,
                   pagesToCreate, pagesToUpdate, failedOps>>

\* a create/update call rejects: Promise.all rejects at once; v1 and v3
\* catch it in the writer, which returns; in v2 it leaves sync uncaught
WriteRejected(op) ==
    /\ pc = "writing"
    /\ op \in inflight
    /\ failedOps' = failedOps \cup {op}
    /\ IF op \in AwaitedCalls
       THEN IF HasTryCatch(variant)
            THEN ApplyWriter(AfterCatch(phase, pagesToUpdate,
                                        OPERATION_BATCH_SIZE(variant)), {op})
            ELSE /\ pc' = "rejected"
                 /\ inflight' = inflight \ {op}
                 /\ UNCHANGED <<phase, batchNo, batches, synced>>
       ELSE /\ inflight' = inflight \ {op}
            /\ UNCHANGED <<pc, phase, batchNo, batches, synced>>
    /\ UNCHANGED <<inputVars, sideVars, exitCode, fetchError, notionReaderVars,
                   gitHubStarsIdToNotionPageId, stars, called,
                   pagesToCreate, pagesToUpdate, completedOps>>

\* the rejection nothing handles ends the process (Node 16, which the
\* workflow runs, exits with status 1); calls in flight are abandoned
UnhandledRejection ==
    /\ pc = "rejected"
    /\ pc' = "exited"
    /\ exitCode' = 1
    /\ UNCHANGED <<inputVars, sideVars, fetchError, notionReaderVars,
                   gitHubStarsIdToNotionPageId, stars, called, writerVars>>

\* sync returned and nothing is pending: the process ends normally
EventLoopEmpty ==
    /\ pc = "synced"
    /\ inflight = {}
    /\ pc' = "exited"
    /\ exitCode' = 0
    /\ UNCHANGED <<inputVars, sideVars, fetchError, notionReaderVars,
                   gitHubStarsIdToNotionPageId, stars, called, writerVars>>

Next ==
    \/ Startup
    \/ \E k \in NotionPageSizes : NotionQueryFulfilled(k)
    \/ NotionQueryRejected
    \/ \E k \in GitHubPageSizes : GitHubPageFulfilled(k)
    \/ GitHubPageRejected
    \/ \E op \in inflight : WriteFulfilled(op)
    \/ \E op \in inflight : WriteRejected(op)
    \/ UnhandledRejection
    \/ EventLoopEmpty

Spec == Init /\ [][Next]_vars

\* the runs whose source holds at most MaxLiveStars repositories
LiveInit == Init /\ Len(githubStars) <= MaxLiveStars

\* every external call settles, and the runtime runs the continuation that
\* is ready and ends the process that has nothing left to do: a step that is
\* possible is eventually taken
SpecLive == LiveInit /\ [][Next]_vars /\ WF_vars(Next)

(* ------------- the reconciliation functions on their own --------------- *)
\* sequences over S of length at most n
SeqsUpTo(S, n) == UNION {[1..k -> S] : k \in 0..n}

NoRepeat(s) == \A i, j \in 1..Len(s) : s[i] = s[j] => i = j

\* destination snapshots: up to MaxLen pages, any id numbers (repeated,
\* missing), the i-th page with page id PageId(i)
ReconDbs == SeqsUpTo((1..MaxId) \cup {null}, MaxLen)

\* source snapshots: up to MaxLen repositories, ids unique
ReconLists == {s \in SeqsUpTo(1..MaxId, MaxLen) : NoRepeat(s)}

\* the process holds both snapshots; the table is empty (line 333)
ReconInit ==
    /\ variant \in Variants
    /\ env = RequiredEnv
    /\ \E ids \in ReconDbs :
         notionDb = [i \in 1..Len(ids) |-> NotionPage(i, ids[i])]
    /\ \E ids \in ReconLists :
         githubStars = [i \in 1..Len(ids) |-> GitHubItem(ids[i])]
    /\ pc = "recon"
    /\ exitCode = -1
    /\ fetchError = "none"
    /\ pages = <<>>
    /\ cursor = NoCursor
    /\ currentStars = <<>>
    /\ notionInFlight = 0
    /\ called = {"notion", "github"}
    /\ gitHubStarsIdToNotionPageId = EmptyObject
    /\ stars = <<>>
    /\ pagesToCreate = <<>>
    /\ pagesToUpdate = <<>>
    /\ phase = "init"
    /\ batchNo = 0
    /\ batches = <<>>
    /\ inflight = {}
    /\ failedOps = {}
    /\ completedOps = {}
    /\ synced = FALSE
    /\ MapperIdle
    /\ RunsIdle

\* setInitialGitHubToNotionIdMap on the whole destination snapshot
ReconIndex ==
    /\ pc = "recon"
    /\ currentStars' = MapPages(notionDb)
    /\ gitHubStarsIdToNotionPageId' =
         setInitialGitHubToNotionIdMap(currentStars', gitHubStarsIdToNotionPageId)
    /\ pc' = "indexed"
    /\ UNCHANGED <<inputVars, sideVars, exitCode, fetchError, pages, cursor, notionInFlight,
                   called, stars,
                   writerVars>>

\* getNotionOperations on the whole source snapshot
ReconOperations ==
    /\ pc = "indexed"
    /\ stars' = [i \in 1..Len(githubStars) |-> StarFromItem(githubStars[i])]
    /\ LET ops == getNotionOperations(stars', gitHubStarsIdToNotionPageId)
       IN /\ pagesToCreate' = ops.pagesToCreate
          /\ pagesToUpdate' = ops.pagesToUpdate
    /\ pc' = "reconciled"
    /\ UNCHANGED <<inputVars, sideVars, exitCode, fetchError, notionReaderVars, called,
                   gitHubStarsIdToNotionPageId, phase, batchNo, batches,
                   inflight, failedOps, completedOps, synced>>

ReconNext == ReconIndex \/ ReconOperations

SpecRecon == ReconInit /\ [][ReconNext]_vars

(* ------------------- getPropertiesFromStar on its own ------------------ *)
\* what the source answers for homepage and description: null, "" or a text
OptionalTexts == {nullObject, EmptyString, String("text")}

\* what the source answers for language and pushed_at: null or a text
NullableTexts == {nullObject, String("text")}

\* the topics of a repository: an array, possibly empty
TopicLists ==
    {Array(ts) : ts \in SeqsUpTo({String("cli"), String("notion")}, MaxTopics)}

\* the stars getGitHubStarsForUser can push, as far as the mapper tells them
\* apart
MapperStars ==
    {[id |-> 1, title |-> String("owner/repo"),
      url |-> String("https://github.com/owner/repo"),
      starred |-> String("2021-01-01"), created |-> String("2020-01-01"),
      pushed |-> p, stargazers |-> 0, watchers |-> 0, size |-> 0, forks |-> 0,
      homepage |-> h, description |-> d, language |-> l, labels |-> t] :
        p \in NullableTexts, h \in OptionalTexts, d \in OptionalTexts,
        l \in NullableTexts, t \in TopicLists}

PropsInit ==
    /\ variant \in Variants
    /\ env = RequiredEnv
    /\ notionDb = <<>>
    /\ githubStars = <<>>
    /\ pc = "mapper"
    /\ exitCode = -1
    /\ fetchError = "none"
    /\ pages = <<>>
    /\ cursor = NoCursor
    /\ currentStars = <<>>
    /\ notionInFlight = 0
    /\ called = {}
    /\ gitHubStarsIdToNotionPageId = EmptyObject
    /\ stars = <<>>
    /\ pagesToCreate = <<>>
    /\ pagesToUpdate = <<>>
    /\ phase = "init"
    /\ batchNo = 0
    /\ batches = <<>>
    /\ inflight = {}
    /\ failedOps = {}
    /\ completedOps = {}
    /\ synced = FALSE
    /\ mapperStar \in MapperStars
    /\ properties = EmptyObject
    /\ RunsIdle

\* properties: getPropertiesFromStar(star)
MapStar ==
    /\ pc = "mapper"
    /\ properties' = getPropertiesFromStar(variant, mapperStar)
    /\ pc' = "mapped"
    /\ UNCHANGED <<inputVars, runsVars, mapperStar, exitCode, fetchError,
                   notionReaderVars, called, gitHubStarsIdToNotionPageId,
                   stars, writerVars>>

PropsNext == MapStar

SpecProps == PropsInit /\ [][PropsNext]_vars

(* ------------------- several runs on one database --------------------- *)
\* Each run is a process of its own: its table, lists and writer state are
\* the fields of runs[r], named as the variables of a single run.  The runs
\* share the destination, whose records are notionDb followed by the pages
\* created so far; every run sees the same source snapshot githubStars.  A
\* run's reader gets the database as it is when its last page arrives.
Runs == 1..NumRuns

IdleRun ==
    [pc |-> "idle", alone |-> TRUE, exitCode |-> -1, currentStars |-> <<>>,
     gitHubStarsIdToNotionPageId |-> EmptyObject, stars |-> <<>>,
     pagesToCreate |-> <<>>, pagesToUpdate |-> <<>>, phase |-> "init",
     batchNo |-> 0, inflight |-> {}, failedOps |-> {}, completedOps |-> {},
     synced |-> FALSE]

\* the records of the destination
Destination == notionDb \o createdPages

\* the star as getGitHubStarsForUser pushes it, its other fields filled in
StarDetails(star) ==
    [id |-> star.id, title |-> String("owner/repo"),
     url |-> String("https://github.com/owner/repo"),
     starred |-> String("2021-01-01"), created |-> String("2020-01-01"),
     pushed |-> String("2022-01-01"), stargazers |-> 0, watchers |-> 0,
     size |-> 0, forks |-> 0, homepage |-> nullObject,
     description |-> nullObject, language |-> nullObject,
     labels |-> Array(<<>>)]

\* the i-th page of the destination, created with the properties of the
\* star: the reader finds its id number under the name the mapper wrote
CreatedPage(v, i, star) ==
    LET props == getPropertiesFromStar(v, StarDetails(star))
    IN NotionPage(i, IF IdField(v) \in DOMAIN props
                     THEN props[IdField(v)][3] ELSE null)

\* the destination after the call op fulfilled: a create adds a page; an
\* update rewrites the properties of a page that carries the id already
AfterCall(v, op, created) ==
    IF op.kind = "create"
    THEN Append(created,
                CreatedPage(v, Len(notionDb) + Len(created) + 1, op.star))
    ELSE created

RunsInit ==
    /\ variant \in Variants
    /\ env = RequiredEnv
    /\ \E ids \in NotionDbs :
         notionDb = [i \in 1..Len(ids) |-> NotionPage(i, ids[i])]
    /\ \E n \in 0..MaxRunStars :
         githubStars = [i \in 1..n |-> GitHubItem(i)]
    /\ pc = "runs"
    /\ exitCode = -1
    /\ fetchError = "none"
    /\ pages = <<>>
    /\ cursor = NoCursor
    /\ currentStars = <<>>
    /\ notionInFlight = 0
    /\ called = {}
    /\ gitHubStarsIdToNotionPageId = EmptyObject
    /\ stars = <<>>
    /\ pagesToCreate = <<>>
    /\ pagesToUpdate = <<>>
    /\ phase = "init"
    /\ batchNo = 0
    /\ batches = <<>>
    /\ inflight = {}
    /\ failedOps = {}
    /\ completedOps = {}
    /\ synced = FALSE
    /\ MapperIdle
    /\ runs = [r \in Runs |-> IdleRun]
    /\ createdPages = <<>>

\* the variables of a single run, which the runs leave alone
singleRunVars == <<inputVars, mapperVars, pc, exitCode, fetchError,
                   notionReaderVars, called, gitHubStarsIdToNotionPageId,
                   stars, writerVars>>

\* the run after the writer step w, the call `settled` (if any) leaving the
\* calls in flight
RunApplyWriter(run, w, settled) ==
    [run EXCEPT !.phase = w.phase,
                !.batchNo = w.batchNo,
                !.inflight = (run.inflight \ settled) \cup Range(w.calls),
                !.synced = (w.phase = "finished"),
                !.pc = IF w.phase = "finished" THEN "synced" ELSE "writing"]

\* the calls of the batch whose Promise.all the run's writer awaits
RunAwaitedCalls(run) ==
    IF run.pc = "writing"
    THEN Range(BatchCalls(run.phase, run.pagesToCreate, run.pagesToUpdate,
                          run.batchNo, OPERATION_BATCH_SIZE(variant)))
    ELSE {}

\* run r is started (the runs are numbered in the order they start): its
\* environment is complete, its first query is sent
RunStartup(r) ==
    /\ runs[r].pc = "idle"
    /\ IF r = 1 THEN TRUE ELSE runs[r - 1].pc # "idle"
    /\ runs' = [runs EXCEPT ![r] =
                  [@ EXCEPT !.pc = "awaitNotion",
                            !.alone = \A q \in Runs \ {r} :
                                         runs[q].pc \in {"idle", "exited"}]]
    /\ UNCHANGED <<createdPages, singleRunVars>>

\* the reader of run r returns the records of the destination; the table is
\* filled and sync starts
RunNotionFulfilled(r) ==
    /\ runs[r].pc = "awaitNotion"
    /\ LET cs == MapPages(Destination)
       IN runs' = [runs EXCEPT ![r] =
                     [@ EXCEPT !.currentStars = cs,
                               !.gitHubStarsIdToNotionPageId =
                                  setInitialGitHubToNotionIdMap(cs, EmptyObject),
                               !.pc = "awaitGitHub"]]
    /\ UNCHANGED <<createdPages, singleRunVars>>

\* the source reader of run r returns: getNotionOperations, then createPages
\* up to its first await
RunGitHubFulfilled(r) ==
    /\ runs[r].pc = "awaitGitHub"
    /\ LET ss == [i \in 1..Len(githubStars) |-> StarFromItem(githubStars[i])]
           ops == getNotionOperations(ss, runs[r].gitHubStarsIdToNotionPageId)
           run == [runs[r] EXCEPT !.stars = ss,
                                  !.pagesToCreate = ops.pagesToCreate,
                                  !.pagesToUpdate = ops.pagesToUpdate]
       IN runs' = [runs EXCEPT ![r] =
                     RunApplyWriter(run,
                        createPages(ops.pagesToCreate, ops.pagesToUpdate, 0,
                                    OPERATION_BATCH_SIZE(variant)), {})]
    /\ UNCHANGED <<createdPages, singleRunVars>>

\* a read of run r rejects: nothing catches it
RunReadRejected(r) ==
    /\ runs[r].pc \in {"awaitNotion", "awaitGitHub"}
    /\ runs' = [runs EXCEPT ![r].pc = "rejected"]
    /\ UNCHANGED <<createdPages, singleRunVars>>

\* a create/update call of run r fulfils: the destination has applied it
RunWriteFulfilled(r, op) ==
    /\ runs[r].pc = "writing"
    /\ op \in runs[r].inflight
    /\ createdPages' = AfterCall(variant, op, createdPages)
    /\ LET run == [runs[r] EXCEPT !.completedOps = @ \cup {op}]
           awaited == RunAwaitedCalls(run)
       IN runs' = [runs EXCEPT ![r] =
                     IF op \in awaited
                        /\ PromiseAllFulfilled(awaited, run.completedOps)
                     THEN RunApplyWriter(run,
                             AfterBatch(run.phase, run.pagesToCreate,
                                        run.pagesToUpdate, run.batchNo,
                                        OPERATION_BATCH_SIZE(variant)), {op})
                     ELSE [run EXCEPT !.inflight = @ \ {op}]]
    /\ UNCHANGED singleRunVars

\* a create/update call of run r rejects: the destination is as before
RunWriteRejected(r, op) ==
    /\ runs[r].pc = "writing"
    /\ op \in runs[r].inflight
    /\ LET run == [runs[r] EXCEPT !.failedOps = @ \cup {op}]
       IN runs' = [runs EXCEPT ![r] =
                     IF op \in RunAwaitedCalls(run)
                     THEN IF HasTryCatch(variant)
                          THEN RunApplyWriter(run,
                                  AfterCatch(run.phase, run.pagesToUpdate,
                                             OPERATION_BATCH_SIZE(variant)),
                                  {op})
                          ELSE [run EXCEPT !.pc = "rejected",
                                           !.inflight = @ \ {op}]
                     ELSE [run EXCEPT !.inflight = @ \ {op}]]
    /\ UNCHANGED <<createdPages, singleRunVars>>

\* the unhandled rejection ends the process of run r
RunUnhandledRejection(r) ==
    /\ runs[r].pc = "rejected"
    /\ runs' = [runs EXCEPT ![r].pc = "exited", ![r].exitCode = 1]
    /\ UNCHANGED <<createdPages, singleRunVars>>

\* sync of run r returned and nothing is pending: its process ends
RunEventLoopEmpty(r) ==
    /\ runs[r].pc = "synced"
    /\ runs[r].inflight = {}
    /\ runs' = [runs EXCEPT ![r].pc = "exited", ![r].exitCode = 0]
    /\ UNCHANGED <<createdPages, singleRunVars>>

RunsNext ==
    \/ \E r \in Runs : RunStartup(r)
    \/ \E r \in Runs : RunNotionFulfilled(r)
    \/ \E r \in Runs : RunGitHubFulfilled(r)
    \/ \E r \in Runs : RunReadRejected(r)
    \/ \E r \in Runs : \E op \in runs[r].inflight : RunWriteFulfilled(r, op)
    \/ \E r \in Runs : \E op \in runs[r].inflight : RunWriteRejected(r, op)
    \/ \E r \in Runs : RunUnhandledRejection(r)
    \/ \E r \in Runs : RunEventLoopEmpty(r)

SpecRuns == RunsInit /\ [][RunsNext]_vars

(* ------------------------- terms of the claims ------------------------- *)
CeilDiv(n, b) == (n + b - 1) \div b

PosOf(seq, x) == CHOOSE i \in 1..Len(seq) : seq[i] = x

\* the calls the two lists handed to the writers stand for, in list order
PlannedCreates == CreateCalls(pagesToCreate)
PlannedUpdates == UpdateCalls(pagesToUpdate)
Planned == Range(PlannedCreates) \cup Range(PlannedUpdates)

\* the calls issued so far
Issued == UNION {Range(batches[i]) : i \in 1..Len(batches)}

\* the calls that have settled
Settled == completedOps \cup failedOps

\* the batch a planned call belongs to, counting the create batches first:
\* the k-th element of a list is in that list's batch ceil(k / size)
BatchRank(c) ==
    LET size == OPERATION_BATCH_SIZE(variant) IN
    IF c.kind = "create"
    THEN CeilDiv(PosOf(PlannedCreates, c), size)
    ELSE CeilDiv(Len(PlannedCreates), size) + CeilDiv(PosOf(PlannedUpdates, c), size)

IsCreateBatch(b) == b[1].kind = "create"
IsUpdateBatch(b) == b[1].kind = "update"

\* the destination snapshot's id numbers, in order
SnapshotIds == [i \in 1..Len(notionDb) |-> notionDb[i].number]

(* ------------------------------- C1 ------------------------------------ *)
\* C1: getNotionOperations partitions its input exactly. Every star of the
\* source snapshot (ids unique) is in exactly one of pagesToCreate and
\* pagesToUpdate, once; pagesToCreate holds the stars whose id is no key of
\* the table, pagesToUpdate the others, each with the pageId the table maps
\* its id to.
C1_Partition ==
    pc = "reconciled" =>
        LET map == gitHubStarsIdToNotionPageId
            isKey(star) == ToPropertyKey(star.id) \in DOMAIN map
            created(star) == \E i \in 1..Len(pagesToCreate) : pagesToCreate[i] = star
            updated(star) ==
                \E i \in 1..Len(pagesToUpdate) : RestOfPage(pagesToUpdate[i]) = star
        IN /\ Len(pagesToCreate) + Len(pagesToUpdate) = Len(stars)
           /\ \A i \in 1..Len(stars) :
                /\ created(stars[i]) # updated(stars[i])
                /\ created(stars[i]) <=> ~isKey(stars[i])
           /\ \A i \in 1..Len(pagesToCreate) :
                pagesToCreate[i] \in Range(stars)
           /\ \A i \in 1..Len(pagesToUpdate) :
                /\ RestOfPage(pagesToUpdate[i]) \in Range(stars)
                /\ pagesToUpdate[i].pageId =
                     map[ToPropertyKey(pagesToUpdate[i].id)]

\* both lists are filled, and the table has a key no star carries
C1_Witness ==
    /\ pc = "reconciled"
    /\ Len(pagesToCreate) > 0
    /\ Len(pagesToUpdate) > 0
    /\ Cardinality(DOMAIN gitHubStarsIdToNotionPageId) > Len(pagesToUpdate)

(* ------------------------------- C2 ------------------------------------ *)
\* C2: a failed write does not stop later batches. When a create or update
\* call of some batch has failed, then by the end of the run every call of
\* every later batch (the remaining create batches, all update batches) has
\* been issued.
C2_LaterBatchesIssued ==
    pc = "exited" =>
        \A f \in failedOps : \A c \in Planned :
            BatchRank(c) > BatchRank(f) => c \in Issued

(* ------------------------------- C3 ------------------------------------ *)
\* C3: a failed write does not stop its siblings. When a call of a batch has
\* failed, every other call of that batch has been issued, and the run does
\* not end before each of them has settled.
C3_SiblingsComplete ==
    \A f \in failedOps : \A c \in Planned :
        BatchRank(c) = BatchRank(f) =>
            /\ c \in Issued
            /\ pc = "exited" => c \in Settled

(* ------------------------------- C4 ------------------------------------ *)
\* C4: a snapshot-fetch failure is fatal before any write. Once a page fetch
\* of either reader has failed no create or update call is ever issued, and
\* calls are only issued when both snapshots were fetched completely.
C4_FetchFailureNoWrite ==
    /\ fetchError # "none" => batches = <<>> /\ inflight = {}
    /\ batches # <<>> =>
         /\ currentStars = [i \in 1..Len(notionDb) |->
                               [pageId |-> notionDb[i].id,
                                starId |-> notionDb[i].number]]
         /\ stars = [i \in 1..Len(githubStars) |-> [id |-> githubStars[i].repo.id]]

\* the source reader failed after a first page, the table already filled:
\* the run has ended
C4_Witness ==
    /\ pc = "exited"
    /\ fetchError = "github"
    /\ Len(stars) > 0
    /\ DOMAIN gitHubStarsIdToNotionPageId # {}

(* ------------------------------- C5 ------------------------------------ *)
\* C5: at every point of a run, also after a write has failed, the calls
\* issued and not yet settled are at most OPERATION_BATCH_SIZE.
C5_InflightAtMostBatchSize ==
    Cardinality(inflight) <= OPERATION_BATCH_SIZE(variant)

\* after a failed write a full batch is in flight
C5_Witness ==
    /\ failedOps # {}
    /\ Cardinality(inflight) = OPERATION_BATCH_SIZE(variant)

(* ------------------------------- C6 ------------------------------------ *)
\* C6: batches run one after another with a full join. While a call of a
\* batch is in flight no later batch has been issued: every call in flight
\* belongs to the last batch issued, and every call of an earlier batch has
\* settled, fulfilled or rejected.
C6_FullJoin ==
    \A i \in 1..Len(batches) : i < Len(batches) =>
        /\ Range(batches[i]) \cap inflight = {}
        /\ Range(batches[i]) \subseteq Settled

\* the first update batch is in flight after the last create batch, of
\* which a call failed
C6_Witness ==
    /\ Len(batches) >= 2
    /\ IsCreateBatch(batches[Len(batches) - 1])
    /\ IsUpdateBatch(batches[Len(batches)])
    /\ Range(batches[Len(batches) - 1]) \cap failedOps # {}
    /\ Range(batches[Len(batches)]) \cap inflight # {}

(* ------------------------------- C7 ------------------------------------ *)
\* the batches a writer issued, in order
CreateBatches == SelectSeq(batches, IsCreateBatch)
UpdateBatches == SelectSeq(batches, IsUpdateBatch)

\* bs are the ceil(N/B) consecutive slices of calls, of B calls each but for
\* the last, which has N mod B (B when B divides N)
IsBatching(bs, calls, size) ==
    LET N == Len(calls) IN
    /\ Len(bs) = CeilDiv(N, size)
    /\ \A i \in 1..Len(bs) :
         /\ Len(bs[i]) = IF i < Len(bs) \/ N % size = 0 THEN size ELSE N % size
         /\ bs[i] = SubSeq(calls, (i - 1) * size + 1, Min(i * size, N))

\* C7: for a list of N operations handed to createPages or updatePages the
\* writer issues ceil(N/B) batches, B = OPERATION_BATCH_SIZE, the consecutive
\* slices of the list, each of B operations but possibly the last: at the end
\* of a run that reached the writers, the batches issued are these.
C7_Batching ==
    (pc = "exited" /\ phase # "init") =>
        /\ IsBatching(CreateBatches, PlannedCreates, OPERATION_BATCH_SIZE(variant))
        /\ IsBatching(UpdateBatches, PlannedUpdates, OPERATION_BATCH_SIZE(variant))

(* ------------------------------- C8 ------------------------------------ *)
\* C8: write errors are absorbed. A run that fetched both snapshots ends
\* normally after logging "Notion database is synced", whichever calls failed.
C8_RunReportsSuccess ==
    (pc = "exited" /\ fetchError = "none" /\ phase # "init") =>
        synced /\ exitCode = 0

(* ------------------------------- C9 ------------------------------------ *)
\* C9: when one of the four required configuration values is missing, no read
\* of the destination or the source and no write is ever issued, and the
\* process exits with a non-zero status straight from startup.
C9_MissingConfigExits ==
    env # RequiredEnv =>
        /\ called = {}
        /\ batches = <<>>
        /\ pc \in {"startup", "exited"}
        /\ pc = "exited" => exitCode # 0

(* ------------------------------- C10 ----------------------------------- *)
\* C10: for a destination snapshot whose id numbers are pairwise distinct,
\* after setInitialGitHubToNotionIdMap the table maps each id of the snapshot
\* to the page id of the page that carries it, and has as many keys as the
\* snapshot has distinct ids.
C10_IndexMatchesSnapshot ==
    (pc \in {"indexed", "reconciled"} /\ NoRepeat(SnapshotIds)) =>
        /\ \A i \in 1..Len(notionDb) :
             Get(gitHubStarsIdToNotionPageId, ToPropertyKey(notionDb[i].number))
                = notionDb[i].id
        /\ Cardinality(DOMAIN gitHubStarsIdToNotionPageId)
             = Cardinality(Range(SnapshotIds))

\* the table was built from several pages with distinct ids, one of them
\* without id number
C10_Witness ==
    /\ pc = "indexed"
    /\ Len(notionDb) >= 2
    /\ NoRepeat(SnapshotIds)
    /\ null \in Range(SnapshotIds)

(* ------------------------------- C11 ----------------------------------- *)
\* the reader has returned to setInitialGitHubToNotionIdMap
ReaderReturned == "github" \in called

\* C11: the destination reader has at most one query outstanding; the query
\* after a page starts at the cursor that page returned, so the pages held so
\* far are the first records of the database in order and more records
\* remain; the reader returns at the first page without next cursor, and
\* what it returns is the { pageId, starId } pair of every record of the
\* database in database order, however the records were split into pages.
C11_ReaderPagesInOrder ==
    /\ notionInFlight <= 1
    /\ pc = "awaitNotion" =>
         /\ notionInFlight = 1
         /\ pages = SubSeq(notionDb, 1, Len(pages))
         /\ cursor = IF pages = <<>> THEN NoCursor ELSE Len(pages) + 1
         /\ pages # <<>> => Len(pages) < Len(notionDb)
    /\ ReaderReturned =>
         /\ notionInFlight = 0
         /\ Len(currentStars) = Len(notionDb)
         /\ \A i \in 1..Len(notionDb) :
              /\ currentStars[i].pageId = notionDb[i].id
              /\ currentStars[i].starId = notionDb[i].number

\* the second query is outstanding: it was started with the cursor of the
\* first page, whose records the reader holds
C11_Witness ==
    /\ pc = "awaitNotion"
    /\ notionInFlight = 1
    /\ pages # <<>>
    /\ cursor = Len(pages) + 1

(* ------------------------------- C12 ----------------------------------- *)
Absent(v) == v \in {undefined, nullObject}

\* C12: what getPropertiesFromStar returns has no Homepage key when the
\* star's homepage is absent or the empty string, no Description key when
\* its description is absent or empty, no Language key when its language is
\* absent, no Topics key when its topic list is empty; and no key of it has
\* the value null.
C12_OptionalFieldsOmitted ==
    pc = "mapped" =>
        /\ (Absent(mapperStar.homepage) \/ mapperStar.homepage = EmptyString)
              => "Homepage" \notin DOMAIN properties
        /\ (Absent(mapperStar.description)
               \/ mapperStar.description = EmptyString)
              => "Description" \notin DOMAIN properties
        /\ Absent(mapperStar.language) => "Language" \notin DOMAIN properties
        /\ mapperStar.labels = Array(<<>>) => "Topics" \notin DOMAIN properties
        /\ \A k \in DOMAIN properties : properties[k] # nullObject

(* ------------------------------- C13 ----------------------------------- *)
\* C13: what getPropertiesFromStar returns has, for every star, the Name
\* property, the number property that carries the repository id (the one the
\* destination reader reads back), the URL property and the three date
\* properties Starred, Created and Pushed.
C13_RequiredFieldsPresent ==
    pc = "mapped" =>
        {"Name", IdField(variant), UrlField(variant),
         "Starred", "Created", "Pushed"} \subseteq DOMAIN properties

(* ------------------------------- C16 ----------------------------------- *)
\* C16: within a run no create or update call is issued twice, whether it
\* fulfilled, rejected or is still in flight: the batches issued so far hold
\* pairwise different calls, each one planned by getNotionOperations, and a
\* call that has settled is not in flight again.
C16_IssuedAtMostOnce ==
    /\ \A i, j \in 1..Len(batches) :
         \A a \in 1..Len(batches[i]), b \in 1..Len(batches[j]) :
            batches[i][a] = batches[j][b] => (i = j /\ a = b)
    /\ Issued \subseteq Planned
    /\ Settled \cap inflight = {}

\* a run ended after a call rejected and a later batch was issued
C16_Witness ==
    /\ pc = "exited"
    /\ failedOps # {}
    /\ \E i \in 1..Len(batches) :
         /\ Range(batches[i]) \cap failedOps # {}
         /\ i < Len(batches)

(* ------------------------------- C17 ----------------------------------- *)
\* C17: when every external call settles, every run ends: the process exits,
\* either after sync completed (status 0) or by a fatal abort (status 1); it
\* does not stay in its reading or writing phase for ever.
C17_RunEnds ==
    <>(pc = "exited" /\ ((synced /\ exitCode = 0) \/ exitCode = 1))

\* a run ended after reading both sides in several pages and writing
C17_Witness ==
    /\ pc = "exited"
    /\ synced
    /\ Len(currentStars) >= 2
    /\ Len(batches) >= 2

(* ------------------------------- C15 ----------------------------------- *)
\* the positions of the snapshot's records that carry the id number n
RecordsOf(n) == {i \in 1..Len(notionDb) : notionDb[i].number = n}

\* the last of them in the order the reader returns them
LastRecordOf(n) == CHOOSE i \in RecordsOf(n) : \A j \in RecordsOf(n) : j <= i

\* the update calls issued for the repository n
UpdatesIssuedFor(n) == {c \in Issued : c.kind = "update" /\ c.star.id = n}

SourceIds == {githubStars[i].repo.id : i \in 1..Len(githubStars)}

\* C15: for an id number that several records of the destination snapshot
\* carry (and the source still holds), the table maps the id to the page id
\* of the last such record; a run that read both sides has, when it ends,
\* issued exactly one update for the id, addressed to that last record; no
\* call is addressed to an earlier record with the id.
C15_LastDuplicateUpdated ==
    \A n \in SourceIds :
        Cardinality(RecordsOf(n)) >= 2 =>
            /\ ReaderReturned =>
                 Get(gitHubStarsIdToNotionPageId, ToPropertyKey(n))
                    = notionDb[LastRecordOf(n)].id
            /\ (pc = "exited" /\ phase # "init") =>
                 /\ Cardinality(UpdatesIssuedFor(n)) = 1
                 /\ \A c \in UpdatesIssuedFor(n) :
                      c.page_id = notionDb[LastRecordOf(n)].id
            /\ \A c \in Issued, i \in RecordsOf(n) \ {LastRecordOf(n)} :
                 c.kind = "update" => c.page_id # notionDb[i].id

(* ------------------------------- C14 ----------------------------------- *)
\* run r has read both sides and reconciled them
Reconciled(r) == runs[r].phase # "init"

\* the id numbers of the destination snapshot run r read
RunSnapshotIds(r) ==
    {runs[r].currentStars[i].starId : i \in 1..Len(runs[r].currentStars)}

\* the runs whose create call for the repository n fulfilled
CreatedBy(n) == {r \in Runs : CreateCall(Star(n)) \in runs[r].completedOps}

\* the destination's records that carry the id number n
DestinationRecordsOf(n) ==
    {i \in 1..Len(Destination) : Destination[i].number = n}

\* C14: runs on the same database are not coordinated: each run classifies a
\* source id as to create exactly when the snapshot it read itself has no
\* record with the id, whatever the other runs have planned or issued; and
\* every create that fulfils adds a record, so the destination holds as
\* many records for an id as it held at first plus one for each run that
\* created it.  Two runs that both read before either's create took effect
\* leave two records with the same id.
C14_RunsNotCoordinated ==
    /\ \A r \in Runs :
         Reconciled(r) =>
            \A n \in SourceIds :
               (n \notin RunSnapshotIds(r))
                  <=> (Star(n) \in Range(runs[r].pagesToCreate))
    /\ \A n \in SourceIds :
         Cardinality(DestinationRecordsOf(n))
            = Cardinality(RecordsOf(n)) + Cardinality(CreatedBy(n))

\* run 2 read the destination while run 1 was under way and before its
\* create for an id had taken effect; both created the id, which two records
\* of the destination now carry
C14_Witness ==
    \E n \in SourceIds :
        /\ RecordsOf(n) = {}
        /\ ~runs[2].alone
        /\ n \notin RunSnapshotIds(1) \cup RunSnapshotIds(2)
        /\ CreatedBy(n) = {1, 2}
        /\ Cardinality(DestinationRecordsOf(n)) = 2

(* ------------------------------- C18 ----------------------------------- *)
\* run r completed and every create it planned fulfilled
CompletedAllCreates(r) ==
    /\ runs[r].synced
    /\ Range(CreateCalls(runs[r].pagesToCreate)) \subseteq runs[r].completedOps

\* nothing failed in run r so far
FailureFree(r) ==
    /\ runs[r].failedOps = {}
    /\ runs[r].pc # "rejected"
    /\ runs[r].exitCode # 1

\* C18: a run that starts after the runs before it have ended, the last of
\* them completed with every create fulfilled, and that sees the same source
\* snapshot plans no create and plans an update for every source record (and
\* has made them all when it completes without failure).  Hence, from a
\* destination with at most one record per source id, runs that do not
\* overlap and do not fail leave at most one record per source id.
C18_RerunConverges ==
    /\ \A r \in Runs \ {1} :
         (runs[r].alone /\ Reconciled(r) /\ CompletedAllCreates(r - 1)) =>
            /\ runs[r].pagesToCreate = <<>>
            /\ Len(runs[r].pagesToUpdate) = Len(githubStars)
            /\ \A n \in SourceIds :
                 \E i \in 1..Len(runs[r].pagesToUpdate) :
                    runs[r].pagesToUpdate[i].id = n
            /\ (runs[r].synced /\ FailureFree(r)) =>
                 Range(UpdateCalls(runs[r].pagesToUpdate))
                    \subseteq runs[r].completedOps
    /\ ((\A r \in Runs : runs[r].alone /\ FailureFree(r))
          /\ \A n \in SourceIds : Cardinality(RecordsOf(n)) <= 1) =>
         \A n \in SourceIds : Cardinality(DestinationRecordsOf(n)) <= 1

\* run 1 created pages and completed; run 2, started after it ended, planned
\* no create, updated every source record and completed
C18_Witness ==
    /\ CompletedAllCreates(1)
    /\ runs[1].pagesToCreate # <<>>
    /\ runs[2].alone
    /\ runs[2].pc = "exited"
    /\ runs[2].synced
    /\ FailureFree(2)
    /\ runs[2].pagesToCreate = <<>>
    /\ Len(runs[2].pagesToUpdate) = Len(githubStars)

====
